---- MODULE Spec2Model ----
(***************************************************************************)
(* A model of vwc (bitplane/vwc): the streaming counter count_stream of    *)
(* src/vwc/count.py, the line-based counter of WC.process_file /           *)
(* WC.process_line of src/vwc/wc/wc.py, and the orchestrators run_wc       *)
(* (src/vwc/vwc.py), WC.run (src/vwc/wc/wc.py) and GNU.run /               *)
(* GNU.run_total_only (src/vwc/wc/gnu.py).                                 *)
(*                                                                         *)
(* Bytes are integers 0..255, text is a sequence of codepoints.  The       *)
(* locale encoding returned by locale.getpreferredencoding(False) is taken *)
(* to be UTF-8.                                                            *)
(***************************************************************************)
EXTENDS Integers, Sequences, FiniteSets, TLC

\* ------------------------------------------------------------------------
\* Bounds of the model
\* ------------------------------------------------------------------------

\* Longest byte sequence enumerated exhaustively over Alphabet.
MaxLen == 3

\* ------------------------------------------------------------------------
\* Generic helpers
\* ------------------------------------------------------------------------

Max(a, b) == IF a >= b THEN a ELSE b

RECURSIVE SeqsUpTo(_, _)
SeqsUpTo(S, n) ==
    IF n = 0 THEN {<<>>}
    ELSE LET shorter == SeqsUpTo(S, n - 1)
         IN  shorter \cup {Append(s, x) : s \in {t \in shorter : Len(t) = n - 1}, x \in S}

\* ------------------------------------------------------------------------
\* Bytes and the inputs of the counters
\* ------------------------------------------------------------------------

LF == 10
TAB == 9
SP == 32

\* tab, line feed, space, "a", and the two bytes of U+00E9 (0xC3 0xA9).
Alphabet == {TAB, LF, SP, 97, 195, 169}

\* "foo bar\nbaz\n"
ScenarioA == <<102, 111, 111, 32, 98, 97, 114, 10, 98, 97, 122, 10>>
\* U+4E2D (0xE4 0xB8 0xAD, a wide character), tab, "x", line feed
ScenarioB == <<228, 184, 173, 9, 120, 10>>
\* the same line without its line feed
ScenarioBOpen == <<228, 184, 173, 9, 120>>
\* "ab cd" : a five byte word pair with no line feed
ScenarioWords == <<97, 98, 32, 99, 100>>

Samples == {ScenarioA, ScenarioB, ScenarioBOpen, ScenarioWords}

Inputs == SeqsUpTo(Alphabet, MaxLen) \cup Samples

FIELD_ORDER == <<"lines", "words", "chars", "bytes", "max_line_length">>
Fields == {FIELD_ORDER[i] : i \in 1..Len(FIELD_ORDER)}

\* Counts.__init__
Counts == [lines |-> 0, words |-> 0, chars |-> 0, bytes |-> 0, max_line_length |-> 0]

\* ------------------------------------------------------------------------
\* The UTF-8 decoder with errors="ignore" (codecs incremental decoder)
\* ------------------------------------------------------------------------

IsLead(b) == b >= 194 /\ b <= 244

SeqLen(b0) == IF b0 < 224 THEN 2 ELSE IF b0 < 240 THEN 3 ELSE 4

\* Whether b may follow the pending bytes pend of a multi-byte sequence.
ContOK(pend, b) ==
    IF Len(pend) = 1
    THEN LET b0 == pend[1]
         IN  CASE b0 = 224 -> b >= 160 /\ b <= 191
               [] b0 = 237 -> b >= 128 /\ b <= 159
               [] b0 = 240 -> b >= 144 /\ b <= 191
               [] b0 = 244 -> b >= 128 /\ b <= 143
               [] OTHER    -> b >= 128 /\ b <= 191
    ELSE b >= 128 /\ b <= 191

CodePoint(s) ==
    CASE Len(s) = 2 -> (s[1] - 192) * 64 + (s[2] - 128)
      [] Len(s) = 3 -> (s[1] - 224) * 4096 + (s[2] - 128) * 64 + (s[3] - 128)
      [] OTHER      -> (s[1] - 240) * 262144 + (s[2] - 128) * 4096
                       + (s[3] - 128) * 64 + (s[4] - 128)

\* One byte through the decoder: st = [pend, out, dropped].
RECURSIVE DecodeByte(_, _)
DecodeByte(st, b) ==
    IF st.pend = <<>>
    THEN IF b < 128 THEN [st EXCEPT !.out = Append(@, b)]
         ELSE IF IsLead(b) THEN [st EXCEPT !.pend = <<b>>]
         ELSE [st EXCEPT !.dropped = @ + 1]
    ELSE IF ContOK(st.pend, b)
         THEN LET s == Append(st.pend, b)
              IN  IF Len(s) = SeqLen(s[1])
                  THEN [st EXCEPT !.pend = <<>>, !.out = Append(@, CodePoint(s))]
                  ELSE [st EXCEPT !.pend = s]
         ELSE DecodeByte([st EXCEPT !.pend = <<>>, !.dropped = @ + Len(st.pend)], b)

RECURSIVE DecodeFrom(_, _, _)
DecodeFrom(st, bytes, i) ==
    IF i > Len(bytes) THEN st ELSE DecodeFrom(DecodeByte(st, bytes[i]), bytes, i + 1)

\* decoder.decode(chunk) of an incremental decoder whose buffer is pend:
\* the decoded text and the new buffer.
IncrementalDecode(pend, chunk) ==
    DecodeFrom([pend |-> pend, out |-> <<>>, dropped |-> 0], chunk, 1)

\* chunk.decode(enc, errors="ignore"): a trailing partial sequence is dropped.
DecodeIgnore(chunk) == IncrementalDecode(<<>>, chunk).out

\* ------------------------------------------------------------------------
\* count.py: char_width and count_stream
\* ------------------------------------------------------------------------

\* char_width(c), c a codepoint (count.py 41-58, vwc.py 150-165).
char_width(c) ==
    IF c >= 4352 /\ (   c <= 4447
                     \/ c <= 4514
                     \/ (11904 <= c /\ c <= 40959)
                     \/ (44032 <= c /\ c <= 55203)
                     \/ (63744 <= c /\ c <= 64255)
                     \/ (65280 <= c /\ c <= 65376)
                     \/ (65504 <= c /\ c <= 65510))
    THEN 2
    ELSE IF c < 32 \/ (127 <= c /\ c <= 159) THEN 0
    ELSE 1

\* bytes.isspace() of one byte, and the complement of rb"\S".
IsSpaceByte(b) == b \in {9, 10, 11, 12, 13, 32}

\* chunk.count(b"\n")
CountLF(chunk) == Cardinality({i \in 1..Len(chunk) : chunk[i] = LF})

\* len(word_re.findall(chunk)) for word_re = rb"\S+": the matches are the
\* runs of non-whitespace bytes, one per run start.
FindallWords(chunk) ==
    Cardinality({i \in 1..Len(chunk) :
        /\ ~IsSpaceByte(chunk[i])
        /\ (i = 1 \/ IsSpaceByte(chunk[i - 1]))})

\* The width of a line that starts at width w: the inner loops of
\* count_stream, lines 127-131, 137-141 and 146-150.
RECURSIVE LineWidthFrom(_, _, _)
LineWidthFrom(w, line, i) ==
    IF i > Len(line) THEN w
    ELSE LineWidthFrom(IF line[i] = TAB THEN ((w \div 8) + 1) * 8
                       ELSE w + char_width(line[i]),
                       line, i + 1)

LineWidth(w, line) == LineWidthFrom(w, line, 1)

\* text.split("\n"): the segments between line feeds, always at least one.
RECURSIVE SplitLFFrom(_, _, _, _)
SplitLFFrom(text, i, cur, acc) ==
    IF i > Len(text) THEN Append(acc, cur)
    ELSE IF text[i] = LF THEN SplitLFFrom(text, i + 1, <<>>, Append(acc, cur))
    ELSE SplitLFFrom(text, i + 1, Append(cur, text[i]), acc)

SplitLF(text) == SplitLFFrom(text, 1, <<>>, <<>>)

RECURSIVE MaxMiddle(_, _, _)
MaxMiddle(lines, i, m) ==
    IF i > Len(lines) - 1 THEN m
    ELSE MaxMiddle(lines, i + 1, Max(m, LineWidth(0, lines[i])))

\* The max-line-length block of count_stream (lines 122-150) on the decoded
\* text of one chunk: the first segment continues the carried width only when
\* the chunk holds a line feed; the last segment restarts curr_width at 0.
WidthBlock(text, curr_width, maxw) ==
    LET lines == SplitLF(text)
        n     == Len(lines)
    IN  IF n = 1
        THEN [curr_width |-> LineWidth(0, lines[1]), max_line_length |-> maxw]
        ELSE [curr_width |-> LineWidth(0, lines[n]),
              max_line_length |->
                  MaxMiddle(lines, 2, Max(maxw, LineWidth(curr_width, lines[1])))]

\* The state count_stream carries from chunk to chunk (lines 67-71).
StreamInit == [cnt |-> Counts, in_word |-> FALSE, curr_width |-> 0, pend |-> <<>>]

\* The words block without the adjustment for a word that continues across
\* the chunk boundary: every chunk's runs are counted as they are.
WordsBlock_NoCarry(s, chunk) ==
    [words   |-> s.cnt.words + FindallWords(chunk),
     in_word |-> ~IsSpaceByte(chunk[Len(chunk)])]

\* The words block with the decrement taken whenever the previous chunk
\* ended inside a word, whatever the first byte of this chunk is.
WordsBlock_DecAnyChunk(s, chunk) ==
    LET dec == IF s.in_word THEN 1 ELSE 0
    IN  [words   |-> s.cnt.words - dec + FindallWords(chunk),
         in_word |-> ~IsSpaceByte(chunk[Len(chunk)])]

\* The words block, lines 96-105.
WordsBlock(s, chunk) ==
    LET dec == IF s.in_word /\ ~IsSpaceByte(chunk[1]) THEN 1 ELSE 0
    IN  [words   |-> s.cnt.words - dec + FindallWords(chunk),
         in_word |-> ~IsSpaceByte(chunk[Len(chunk)])]

\* One iteration of the loop of count_stream (lines 84-150) on a non-empty
\* chunk, with the enabled fields o.
ChunkStep(s, chunk, o) ==
    LET w     == IF "words" \in o THEN WordsBlock(s, chunk)
                 ELSE [words |-> s.cnt.words, in_word |-> s.in_word]
        d1    == IncrementalDecode(s.pend, chunk)
        \* line 117: the same chunk is passed to the decoder a second time
        d2    == IncrementalDecode(d1.pend, chunk)
        pend1 == IF "chars" \in o THEN d1.pend ELSE s.pend
        text  == IF "chars" \in o THEN d2.out ELSE DecodeIgnore(chunk)
        wb    == IF "max_line_length" \in o
                 THEN WidthBlock(text, s.curr_width, s.cnt.max_line_length)
                 ELSE [curr_width |-> s.curr_width,
                       max_line_length |-> s.cnt.max_line_length]
    IN  [cnt |-> [lines |-> s.cnt.lines + (IF "lines" \in o THEN CountLF(chunk) ELSE 0),
                  words |-> w.words,
                  chars |-> s.cnt.chars + (IF "chars" \in o THEN Len(d1.out) ELSE 0),
                  bytes |-> s.cnt.bytes + Len(chunk),
                  max_line_length |-> wb.max_line_length],
         in_word    |-> w.in_word,
         curr_width |-> wb.curr_width,
         pend       |-> IF "chars" \in o /\ "max_line_length" \in o THEN d2.pend ELSE pend1]

\* count_stream on a stream that f.read returns in one piece.
CountWhole(bytes, o) ==
    IF bytes = <<>> THEN Counts ELSE ChunkStep(StreamInit, bytes, o).cnt

\* ------------------------------------------------------------------------
\* wc/wc.py: WC.process_line and its helpers
\* ------------------------------------------------------------------------

\* str.isspace() of one codepoint: the separators of text.split().
IsSpaceChar(c) ==
    \/ (9 <= c /\ c <= 13) \/ (28 <= c /\ c <= 32)
    \/ c \in {133, 160, 5760, 8232, 8233, 8239, 8287, 12288}
    \/ (8192 <= c /\ c <= 8202)

\* len(text.split())
SplitWords(text) ==
    Cardinality({i \in 1..Len(text) :
        /\ ~IsSpaceChar(text[i])
        /\ (i = 1 \/ IsSpaceChar(text[i - 1]))})

\* line.decode("utf-8"), and line.decode("latin-1") when that raises.
DecodeLine(line) ==
    LET d == IncrementalDecode(<<>>, line)
    IN  IF d.dropped = 0 /\ d.pend = <<>> THEN d.out ELSE line

\* text.rstrip("\n")
RECURSIVE RstripLF(_)
RstripLF(text) ==
    IF text # <<>> /\ text[Len(text)] = LF
    THEN RstripLF(SubSeq(text, 1, Len(text) - 1))
    ELSE text

\* text.expandtabs(8): a tab becomes the spaces up to the next multiple of 8
\* of the character column j; a line feed or carriage return resets j.
RECURSIVE ExpandTabsFrom(_, _, _, _)
ExpandTabsFrom(text, i, j, acc) ==
    IF i > Len(text) THEN acc
    ELSE IF text[i] = TAB
         THEN LET incr == 8 - (j % 8)
              IN  ExpandTabsFrom(text, i + 1, j + incr,
                                 acc \o [k \in 1..incr |-> SP])
         ELSE ExpandTabsFrom(text, i + 1,
                             IF text[i] \in {10, 13} THEN 0 ELSE j + 1,
                             Append(acc, text[i]))

ExpandTabs(text) == ExpandTabsFrom(text, 1, 0, <<>>)

\* wcwidth.wcwidth(char): -1 for control characters, 0 for NUL and the
\* combining marks, 2 for the East Asian wide and fullwidth ranges, else 1.
wcwidth(c) ==
    IF c = 0 THEN 0
    ELSE IF c < 32 \/ (127 <= c /\ c < 160) THEN 0 - 1
    ELSE IF (768 <= c /\ c <= 879) \/ (8203 <= c /\ c <= 8207) THEN 0
    ELSE IF \/ (4352 <= c /\ c <= 4447)
            \/ (11904 <= c /\ c <= 12350)
            \/ (12353 <= c /\ c <= 19903)
            \/ (19968 <= c /\ c <= 42182)
            \/ (43360 <= c /\ c <= 43388)
            \/ (44032 <= c /\ c <= 55203)
            \/ (63744 <= c /\ c <= 64255)
            \/ (65040 <= c /\ c <= 65049)
            \/ (65072 <= c /\ c <= 65131)
            \/ (65281 <= c /\ c <= 65376)
            \/ (65504 <= c /\ c <= 65510)
            \/ (131072 <= c /\ c <= 262141)
         THEN 2
    ELSE 1

\* WC.get_display_width
RECURSIVE SumWidthFrom(_, _, _)
SumWidthFrom(text, i, width) ==
    IF i > Len(text) THEN width
    ELSE SumWidthFrom(text, i + 1,
                      IF wcwidth(text[i]) >= 0 THEN width + wcwidth(text[i]) ELSE width)

get_display_width(text) == SumWidthFrom(ExpandTabs(text), 1, 0)

\* WC.process_line(line) on the counts c of the instance, with the flags o.
process_line(c, line, o) ==
    LET text == DecodeLine(line)
    IN  [lines |-> c.lines + (IF "lines" \in o THEN 1 ELSE 0),
         words |-> c.words + (IF "words" \in o THEN SplitWords(text) ELSE 0),
         bytes |-> c.bytes + (IF "bytes" \in o THEN Len(line) ELSE 0),
         chars |-> c.chars + (IF "chars" \in o THEN Len(text) ELSE 0),
         max_line_length |->
             IF "max_line_length" \in o
             THEN Max(c.max_line_length, get_display_width(RstripLF(text)))
             ELSE c.max_line_length]

\* The end (index of the last byte) of the line that "for line in file_obj"
\* yields at position pos: up to and including the next line feed, or the
\* rest of the stream.
RECURSIVE LineEnd(_, _)
LineEnd(bytes, i) ==
    IF i >= Len(bytes) \/ bytes[i] = LF THEN i ELSE LineEnd(bytes, i + 1)

\* WC.process_file on a whole stream: reset_counts, then every line.
RECURSIVE ProcessLinesFrom(_, _, _, _)
ProcessLinesFrom(c, bytes, i, o) ==
    IF i > Len(bytes) THEN c
    ELSE LET e == LineEnd(bytes, i)
         IN  ProcessLinesFrom(process_line(c, SubSeq(bytes, i, e), o), bytes, e + 1, o)

\* ------------------------------------------------------------------------
\* Counts, fields and rows
\* ------------------------------------------------------------------------

\* Counts.__iadd__: sum, except max_line_length which takes the maximum.
CountsIadd(a, b) ==
    [lines |-> a.lines + b.lines,
     words |-> a.words + b.words,
     chars |-> a.chars + b.chars,
     bytes |-> a.bytes + b.bytes,
     max_line_length |-> Max(a.max_line_length, b.max_line_length)]

\* The values of the fields of order that are enabled in o, in that order.
RECURSIVE SelectFields(_, _, _, _)
SelectFields(c, o, order, i) ==
    IF i > Len(order) THEN <<>>
    ELSE (IF order[i] \in o THEN <<c[order[i]]>> ELSE <<>>)
         \o SelectFields(c, o, order, i + 1)

\* Counts.to_fields(opts)
to_fields(c, o) == SelectFields(c, o, FIELD_ORDER, 1)

\* WC.get_counts_array: lines, words, bytes, chars, max width.
get_counts_array(c, o) ==
    SelectFields(c, o, <<"lines", "words", "bytes", "chars", "max_line_length">>, 1)

\* A row handed to the formatter: the selected values and the label
\* ("" when the row has none).
Row(fields, label) == [fields |-> fields, label |-> label]

\* A line of the error stream: "<prog>: <name>: <msg>".
ErrLine(name, msg) == [name |-> name, msg |-> msg]
\* The bare newline written when the run is interrupted.
ErrNewline == [name |-> "", msg |-> "\n"]
\* The traceback of an exception nothing catches.
ErrTraceback == [name |-> "", msg |-> "Traceback"]

\* ------------------------------------------------------------------------
\* The file system and standard input the runs see
\* ------------------------------------------------------------------------

\* Names a run may be given.  "a" and "b" are regular files, "missing" does
\* not exist, "secret" is unreadable, "dir" is a directory, "bad" is a file
\* whose read fails with EIO after its first line, "odd" a file whose read
\* raises an exception that is no OSError; "-" and "" are themselves.
Names == {"-", "", "a", "b", "missing", "secret", "dir", "bad", "odd"}

\* What open(name, "rb") does.
OpenResult(name) ==
    CASE name \in {"a", "b", "bad", "odd"} -> "ok"
      [] name = "secret"                   -> "EACCES"
      [] name = "dir"                      -> "EISDIR"
      [] OTHER                             -> "ENOENT"

strerror(errno) ==
    CASE errno = "ENOENT" -> "No such file or directory"
      [] errno = "EACCES" -> "Permission denied"
      [] errno = "EISDIR" -> "Is a directory"
      [] OTHER            -> "Input/output error"

\* What reading an opened file to its end does.
ReadResult(name) ==
    CASE name = "bad" -> "EIO"
      [] name = "odd" -> "ValueError"
      [] OTHER        -> "ok"

StdinContent == ScenarioWords

\* The bytes a read of the file delivers (for "bad": before the error).
Content(name) ==
    CASE name = "a"   -> ScenarioA
      [] name = "b"   -> ScenarioB
      [] name = "bad" -> <<97, 10>>
      [] OTHER        -> <<>>

\* ------------------------------------------------------------------------
\* The counter the StreamCounter section of the specification describes,
\* standing in for the process_file(filename, file_obj, args) and
\* process_line(line, args) that gnu.py calls and the sources do not hold
\* ------------------------------------------------------------------------

\* The maximal runs of non-whitespace bytes, one per run end.
MaximalRuns(bytes) ==
    Cardinality({i \in 1..Len(bytes) :
        /\ ~IsSpaceByte(bytes[i])
        /\ (i = Len(bytes) \/ IsSpaceByte(bytes[i + 1]))})

\* The counts of one line, as process_line(line, args) returns them.
SpecLineCounts(line, o) ==
    [lines |-> IF "lines" \in o THEN CountLF(line) ELSE 0,
     words |-> IF "words" \in o THEN MaximalRuns(line) ELSE 0,
     chars |-> IF "chars" \in o THEN Len(DecodeIgnore(line)) ELSE 0,
     bytes |-> IF "bytes" \in o THEN Len(line) ELSE 0,
     max_line_length |->
         IF "max_line_length" \in o
         THEN LineWidth(0, SplitLF(DecodeIgnore(line))[1])
         ELSE 0]

\* The Counts of a whole stream: its lines merged by the merge rule.
RECURSIVE SpecCountsFrom(_, _, _, _)
SpecCountsFrom(c, bytes, i, o) ==
    IF i > Len(bytes) THEN c
    ELSE LET e == LineEnd(bytes, i)
         IN  SpecCountsFrom(CountsIadd(c, SpecLineCounts(SubSeq(bytes, i, e), o)),
                            bytes, e + 1, o)

SpecFileCounts(bytes, o) == SpecCountsFrom(Counts, bytes, 1, o)

\* ------------------------------------------------------------------------
\* The entries of a run
\* ------------------------------------------------------------------------

\* Longest list of file arguments.
MaxFiles == 2

Impls == {"run_wc", "WC", "GNU"}

\* detect_platform() for run_wc; the class get_wc() picks for WC.run.
Variants(i) ==
    CASE i = "run_wc" -> {"gnu", "bsd", "unknown"}
      [] i = "WC"     -> {"BSD", "BusyBox"}
      [] OTHER        -> {"GNU"}

\* --total; only the GNU-style parsers have the option.
TotalModes(i) == IF i = "WC" THEN {"auto"} ELSE {"auto", "always", "only", "never"}

\* The flags given on the command line.
FlagSets == {{}, {"words", "max_line_length"}, {"max_line_length"}}

\* "If no options specified, show default set (lines, words, bytes)".
DefaultFlags(flags) == IF flags = {} THEN {"lines", "words", "bytes"} ELSE flags

\* The (name, stream, label) entries a run iterates over:
\*   run_wc: get_files (args.files or ["-"]); "-" is standard input, no label;
\*   WC:     get_file_names (args.files or [""]); open_file / BusyBox.get_files
\*           take "" and "-" for standard input, the label is the name;
\*   GNU:    GNU.get_files; "-" and no file at all yield ("", stdin).
Entry(name, stdin, label) == [name |-> name, stdin |-> stdin, label |-> label]

Entries(i, fs) ==
    CASE i = "run_wc" ->
           LET ns == IF fs = <<>> THEN <<"-">> ELSE fs
           IN  [k \in 1..Len(ns) |->
                  Entry(ns[k], ns[k] = "-", IF ns[k] = "-" THEN "" ELSE ns[k])]
      [] i = "WC" ->
           LET ns == IF fs = <<>> THEN <<"">> ELSE fs
           IN  [k \in 1..Len(ns) |-> Entry(ns[k], ns[k] \in {"", "-"}, ns[k])]
      [] OTHER ->
           IF fs = <<>> THEN <<Entry("", TRUE, "")>>
           ELSE [k \in 1..Len(fs) |->
                   IF fs[k] = "-" THEN Entry("", TRUE, "")
                   ELSE Entry(fs[k], FALSE, fs[k])]

\* Whether the code closes the stream after a successful read.
\* run_wc, line 307: if p != "-"
run_wc_closes(e) == e.name # "-"
\* A process_file that closes every stream it was given a name for,
\* standard input under the name "-" included.
process_file_closes_named(e) == e.name # ""

\* WC.process_file, line 291: if filename and file_obj != sys.stdin.buffer
process_file_closes(e) == e.name # "" /\ ~e.stdin
\* GNU.run_total_only, line 163: if filename != ""
run_total_only_closes(e) == e.name # ""

\* WC.set_status
set_status(code) == code

\* A loop that lets no exception out: the interrupt is handled like any
\* other failure of the entry.
Propagates_Nothing(x) == FALSE

\* The exceptions that leave the loop of a run: "except KeyboardInterrupt:
\* raise" (wc.py 242, gnu.py 111); "except Exception" does not catch it.
Propagates(x) == x = "KeyboardInterrupt"

\* The exceptions "except Exception" catches: KeyboardInterrupt is none.
IsException(x) == x \in {"ENOENT", "EACCES", "EISDIR", "EIO", "ValueError"}

\* OSError and its subclasses carry strerror.
IsOSError(x) == x \in {"ENOENT", "EACCES", "EISDIR", "EIO"}

\* WC.handle_error / Linux.handle_error for the class v: whether evaluating
\* error.strerror raises, and the error lines and rows it writes.
handle_error(v, x, filename, o) ==
    IF ~IsOSError(x)
    THEN [raises |-> TRUE, errs |-> <<>>, rows |-> <<>>]
    ELSE [raises |-> FALSE,
          errs   |-> <<ErrLine(filename, strerror(x))>>,
          rows   |-> IF v = "BusyBox" /\ x = "EISDIR"
                     THEN <<Row(get_counts_array(Counts, o), filename)>>
                     ELSE <<>>]

\* WC.update_totals
update_totals(t, c, o) ==
    [lines |-> IF "lines" \in o THEN t.lines + c.lines ELSE t.lines,
     words |-> IF "words" \in o THEN t.words + c.words ELSE t.words,
     bytes |-> IF "bytes" \in o THEN t.bytes + c.bytes ELSE t.bytes,
     chars |-> IF "chars" \in o THEN t.chars + c.chars ELSE t.chars,
     max_line_length |->
         IF "max_line_length" \in o
         THEN Max(t.max_line_length, c.max_line_length)
         ELSE t.max_line_length]

\* GNU.run, lines 131-134, and GNU.run_total_only, lines 159-160:
\* totals[i] += count for every column.
SumColumns(t, c) == [i \in 1..Len(t) |-> t[i] + c[i]]

RECURSIVE SumRows(_, _, _)
SumRows(t, rows, i) ==
    IF i > Len(rows) THEN t ELSE SumRows(SumColumns(t, rows[i].fields), rows, i + 1)

\* The lines of a stream added to totals one by one (run_total_only, 157-160).
RECURSIVE SumLinesFrom(_, _, _, _)
SumLinesFrom(t, bytes, i, o) ==
    IF i > Len(bytes) THEN t
    ELSE LET e == LineEnd(bytes, i)
         IN  SumLinesFrom(SumColumns(t, to_fields(SpecLineCounts(SubSeq(bytes, i, e), o), o)),
                          bytes, e + 1, o)

\* Text written to a stream is a sequence of one-character strings.
Digit(d) == <<"0", "1", "2", "3", "4", "5", "6", "7", "8", "9">>[d + 1]

\* f"{n}" for n >= 0
RECURSIVE Str(_)
Str(n) == IF n < 10 THEN <<Digit(n)>> ELSE Append(Str(n \div 10), Digit(n % 10))

Spaces(k) == [i \in 1..k |-> " "]

\* f"{n:{w}d}": right-justified in w columns, never truncated.
FormatD(n, w) == Spaces(w - Len(Str(n))) \o Str(n)

\* GNU.print_line, lines 180-183: every count as f"{count:7d} ".
RECURSIVE PadEach7(_, _)
PadEach7(counts, i) ==
    IF i > Len(counts) THEN <<>>
    ELSE FormatD(counts[i], 7) \o <<" ">> \o PadEach7(counts, i + 1)

\* GNU.print_line(counts, filename): the line printed, without its newline.
GNU_print_line(counts, filename) ==
    IF Len(counts) = 1
    THEN Str(counts[1]) \o (IF filename # <<>> THEN <<" ">> \o filename ELSE <<>>)
    ELSE PadEach7(counts, 1) \o filename

\* BSD.print_line(counts, filename): the line printed, without its newline.
BSD_print_line(counts, filename) == PadEach7(counts, 1) \o filename

\* BusyBox.print_line(counts, filename): 9-column fields joined by spaces.
RECURSIVE Join9(_, _)
Join9(counts, i) ==
    IF i > Len(counts) THEN <<>>
    ELSE (IF i > 1 THEN <<" ">> ELSE <<>>) \o FormatD(counts[i], 9) \o Join9(counts, i + 1)

BusyBox_print_line(counts, filename) ==
    (IF Len(counts) = 1 THEN Str(counts[1]) ELSE Join9(counts, 1))
        \o (IF filename # <<>> THEN <<" ">> \o filename ELSE <<>>)

\* self.print_line of the class v
print_line(v, counts, filename) ==
    CASE v = "BSD"     -> BSD_print_line(counts, filename)
      [] v = "BusyBox" -> BusyBox_print_line(counts, filename)
      [] OTHER         -> GNU_print_line(counts, filename)

\* compute_widths([], args, default=True): 7 for every selected field.
compute_widths_default(o) == [k \in o |-> 7]

\* format_line(fields, label, width_map): the selected fields, each
\* right-justified to its width, and the label, joined by single spaces.
RECURSIVE FormatParts(_, _, _, _, _)
FormatParts(fields, keys, width_map, i, first) ==
    IF i > Len(keys) THEN <<>>
    ELSE (IF first THEN <<>> ELSE <<" ">>)
         \o FormatD(fields[i], width_map[keys[i]])
         \o FormatParts(fields, keys, width_map, i + 1, FALSE)

RECURSIVE SelectKeys(_, _)
SelectKeys(width_map, i) ==
    IF i > Len(FIELD_ORDER) THEN <<>>
    ELSE (IF FIELD_ORDER[i] \in DOMAIN width_map THEN <<FIELD_ORDER[i]>> ELSE <<>>)
         \o SelectKeys(width_map, i + 1)

format_line(fields, label, width_map) ==
    LET keys  == SelectKeys(width_map, 1)
        parts == FormatParts(fields, keys, width_map, 1, TRUE)
    IN  IF label = <<>> THEN parts
        ELSE IF parts = <<>> THEN label
        ELSE parts \o <<" ">> \o label

\* write(line, to_err, newline), and a write to sys.stderr: what is written
\* and where. "ESC[K" and "ESC[F" stand for the escape sequences \033[K
\* (erase the line) and \033[F (cursor to the previous line).
write(line, to_err, newline) ==
    [to_err |-> to_err, text |-> line \o (IF newline THEN <<"\n">> ELSE <<>>)]

\* The preview throttle: 0.2 s, in ticks of 100 ms.
Throttle == 2

\* ------------------------------------------------------------------------
\* The counters as a state machine: one stream, read to its end
\* ------------------------------------------------------------------------

VARIABLES
    engine,      \* "count_stream" or "WC": which counter reads the stream
    data,        \* the bytes of the stream
    opts,        \* the enabled fields
    pos,         \* bytes read so far
    cnt,         \* the Counts being accumulated
    in_word,     \* count_stream: the previous chunk ended inside a word
    curr_width,  \* count_stream: width of the line still open
    decoder,     \* count_stream: bytes buffered by the incremental decoder
    nchunks,     \* reads that returned data so far
    eof          \* the read that returned no data has happened

streamVars == <<engine, data, opts, pos, cnt, in_word, curr_width, decoder, nchunks, eof>>

VARIABLES
    impl,         \* "run_wc", "WC" or "GNU": the orchestrator that runs
    variant,      \* the platform (run_wc) or the class (WC, GNU)
    total,        \* --total: "auto", "always", "only", "never"
    files,        \* args.files
    idx,          \* the entry the loop is at
    out,          \* rows written to the primary output
    err,          \* lines written to the error stream
    results,      \* run_wc: results; GNU.run: file_results
    tot,          \* run_wc: tot; WC: total_lines .. total_max_width
    totals,       \* GNU.run_total_only: totals
    cur,          \* WC: lines, words, bytes, chars, max_width of the instance
    exit_code,    \* run_wc: had_error (as 0/1); WC, GNU: self.exit_code
    phase,        \* "idle", "running", "done", "interrupted", "crashed"
    status,       \* exit status of the process, -1 while it runs
    streams,      \* the streams opened for named files: [name, closes]
    stdin_closes, \* close() calls on sys.stdin.buffer
    stdin_eof,    \* standard input has been read to its end
    sigint        \* a KeyboardInterrupt was raised during the run

runVars == <<impl, variant, total, files, idx, out, err, results, tot, totals, cur,
             exit_code, phase, status, streams, stdin_closes, stdin_eof, sigint>>

VARIABLES
    fn,           \* the function called on its own, "none" when there is none
    arg,          \* its argument
    res,          \* its result, once called
    called        \* the call has returned

callVars == <<fn, arg, res, called>>

VARIABLES
    tty,          \* sys.stderr.isatty()
    now,          \* the clock, in ticks of 100 ms since the stream was opened
    last,         \* count_stream: last; WC.process_file: last_update
    preview       \* what the counter wrote while it read: [kind, to_err, at, text]

liveVars == <<tty, now, last, preview>>

vars == <<streamVars, runVars, callVars, liveVars>>

\* No terminal, and a clock that stands still: no preview.
LiveIdle == tty = FALSE /\ now = 0 /\ last = 0 /\ preview = <<>>

\* No function is called on its own.
CallIdle == fn = "none" /\ arg = 0 /\ res = 0 /\ called = FALSE

\* No run: the counters are exercised on their own.
RunIdle ==
    /\ impl = "none" /\ variant = "none" /\ total = "auto" /\ files = <<>>
    /\ idx = 1 /\ out = <<>> /\ err = <<>> /\ results = <<>>
    /\ tot = Counts /\ totals = <<>> /\ cur = Counts
    /\ exit_code = 0 /\ phase = "idle" /\ status = 0 - 1
    /\ streams = <<>> /\ stdin_closes = 0 /\ stdin_eof = FALSE
    /\ sigint = FALSE

StreamStart ==
    /\ RunIdle
    /\ CallIdle
    /\ LiveIdle
    /\ engine \in {"count_stream", "WC"}
    /\ data \in Inputs
    /\ opts \in SUBSET Fields
    /\ pos = 0
    /\ cnt = Counts
    /\ in_word = FALSE
    /\ curr_width = 0
    /\ decoder = <<>>
    /\ nchunks = 0
    /\ eof = FALSE

\* A preview without the throttle: a frame after every chunk.
LivePreview_Unthrottled(c) ==
    IF tty
    THEN /\ preview' = Append(preview,
               [kind |-> "frame", at |-> now] @@
               write(<<"\r">> \o format_line(to_fields(c, opts), <<>>,
                                             compute_widths_default(opts)),
                     TRUE, FALSE))
         /\ last' = now
         /\ UNCHANGED now
    ELSE UNCHANGED <<now, last, preview>>

\* The live preview at the end of an iteration of count_stream (lines
\* 152-168) with the counts c: when live and 0.2 s have passed since last,
\* a frame is written and last is read from the clock again, which may
\* have moved on by then.
LivePreview(c) ==
    IF tty /\ now - last >= Throttle
    THEN \E d \in {0, 1} :
           /\ preview' = Append(preview,
                 [kind |-> "frame", at |-> now] @@
                 write(<<"\r">> \o format_line(to_fields(c, opts), <<>>,
                                               compute_widths_default(opts)),
                       TRUE, FALSE))
           /\ now' = now + d
           /\ last' = now + d
    ELSE UNCHANGED <<now, last, preview>>

\* chunk = f.read(131072) returned k bytes; the body of the loop.
ReadChunk ==
    /\ engine = "count_stream"
    /\ ~eof
    /\ \E k \in 1..(Len(data) - pos) :
         LET chunk == SubSeq(data, pos + 1, pos + k)
             s     == ChunkStep([cnt |-> cnt, in_word |-> in_word,
                                 curr_width |-> curr_width, pend |-> decoder],
                                chunk, opts)
         IN  /\ pos' = pos + k
             /\ cnt' = s.cnt
             /\ in_word' = s.in_word
             /\ curr_width' = s.curr_width
             /\ decoder' = s.pend
             /\ LivePreview(s.cnt)
    /\ nchunks' = nchunks + 1
    /\ UNCHANGED <<engine, data, opts, eof, tty>>
    /\ UNCHANGED runVars
    /\ UNCHANGED callVars

\* f.read returned b"": break, return cnt.
ReadEOF ==
    /\ engine = "count_stream"
    /\ ~eof
    /\ pos = Len(data)
    /\ eof' = TRUE
    /\ UNCHANGED <<engine, data, opts, pos, cnt, in_word, curr_width, decoder, nchunks>>
    /\ UNCHANGED runVars
    /\ UNCHANGED <<callVars, liveVars>>

\* The name of the file WC.process_file reads when it is run on its own.
PreviewName == <<"a">>

\* WC.print_progress(filename) with the counts c: nothing unless the error
\* stream is a terminal; else erase the line, print the row through
\* self.print_line (with its newline) and move the cursor up again.
print_progress(c, filename) ==
    IF ~tty THEN <<>>
    ELSE <<[kind |-> "frame", at |-> now, to_err |-> TRUE,
            text |-> <<"\r", "ESC[K">>
                     \o print_line(variant, get_counts_array(c, opts), filename)
                     \o <<"\n">> \o <<"ESC[F">>]>>

\* One iteration of "for line in file_obj" in WC.process_file.
ProcessLine ==
    /\ engine = "WC"
    /\ ~eof
    /\ pos < Len(data)
    /\ LET e == LineEnd(data, pos + 1)
           c == process_line(cnt, SubSeq(data, pos + 1, e), opts)
       IN  /\ cnt' = c
           /\ pos' = e
           /\ IF now - last >= Throttle
              THEN /\ preview' = preview \o print_progress(c, PreviewName)
                   /\ last' = now
              ELSE UNCHANGED <<preview, last>>
    /\ nchunks' = nchunks + 1
    /\ UNCHANGED <<engine, data, opts, in_word, curr_width, decoder, eof, tty, now>>
    /\ UNCHANGED runVars
    /\ UNCHANGED callVars

\* The iteration over file_obj is exhausted: the progress line is erased
\* when the error stream is a terminal (wc.py 285-288).
ProcessEOF ==
    /\ engine = "WC"
    /\ ~eof
    /\ pos = Len(data)
    /\ eof' = TRUE
    /\ preview' = IF tty
                  THEN Append(preview, [kind |-> "clear", at |-> now, to_err |-> TRUE,
                                        text |-> <<"\r", "ESC[K">>])
                  ELSE preview
    /\ UNCHANGED <<engine, data, opts, pos, cnt, in_word, curr_width, decoder, nchunks>>
    /\ UNCHANGED <<tty, now, last>>
    /\ UNCHANGED runVars
    /\ UNCHANGED callVars

StreamNext == ReadChunk \/ ReadEOF \/ ProcessLine \/ ProcessEOF

SpecStream == StreamStart /\ [][StreamNext]_vars

\* ------------------------------------------------------------------------
\* The counters with a clock that runs and an error stream that may be a
\* terminal: the live preview
\* ------------------------------------------------------------------------

\* Ticks of the clock the model follows.
MaxTime == 5

\* Three short lines, and "ab cd" without line feed.
PreviewInputs == {<<97, 10, 98, 10, 99, 10>>, ScenarioWords}

PreviewStart ==
    /\ CallIdle
    /\ engine \in {"count_stream", "WC"}
    /\ variant \in (IF engine = "WC" THEN {"BSD", "BusyBox"} ELSE {"none"})
    /\ data \in PreviewInputs
    /\ opts \in {DefaultFlags({}), {"lines"}, {"words", "max_line_length"}}
    /\ pos = 0 /\ cnt = Counts /\ in_word = FALSE /\ curr_width = 0
    /\ decoder = <<>> /\ nchunks = 0 /\ eof = FALSE
    /\ impl = "none" /\ total = "auto" /\ files = <<>>
    /\ idx = 1 /\ out = <<>> /\ err = <<>> /\ results = <<>>
    /\ tot = Counts /\ totals = <<>> /\ cur = Counts
    /\ exit_code = 0 /\ phase = "idle" /\ status = 0 - 1
    /\ streams = <<>> /\ stdin_closes = 0 /\ stdin_eof = FALSE
    /\ sigint = FALSE
    /\ tty \in BOOLEAN
    /\ now = 0 /\ last = 0 /\ preview = <<>>

\* 100 ms pass while the stream is being read.
Tick ==
    /\ engine \in {"count_stream", "WC"}
    /\ ~eof
    /\ now < MaxTime
    /\ now' = now + 1
    /\ UNCHANGED <<streamVars, runVars, callVars, tty, last, preview>>

PreviewNext == StreamNext \/ Tick

SpecPreview == PreviewStart /\ [][PreviewNext]_vars

\* ------------------------------------------------------------------------
\* The runs as a state machine: one invocation over a list of names
\* ------------------------------------------------------------------------

StreamIdle ==
    /\ engine = "none" /\ data = <<>> /\ pos = 0 /\ cnt = Counts
    /\ in_word = FALSE /\ curr_width = 0 /\ decoder = <<>>
    /\ nchunks = 0 /\ eof = FALSE

RunStart ==
    /\ StreamIdle
    /\ CallIdle
    /\ LiveIdle
    /\ impl \in Impls
    /\ variant \in Variants(impl)
    /\ total \in TotalModes(impl)
    /\ files \in SeqsUpTo(Names, MaxFiles)
    /\ opts \in {DefaultFlags(f) : f \in FlagSets}
    /\ idx = 1 /\ out = <<>> /\ err = <<>> /\ results = <<>>
    /\ tot = Counts /\ cur = Counts
    /\ totals = IF impl = "GNU" /\ total = "only" THEN to_fields(Counts, opts) ELSE <<>>
    /\ exit_code = 0 /\ phase = "running" /\ status = 0 - 1
    /\ streams = <<>> /\ stdin_closes = 0 /\ stdin_eof = FALSE
    /\ sigint = FALSE

\* What opening and reading entry e ends with: "ok", an errno, "ValueError"
\* (a read of a closed standard input) or, when the user interrupts the
\* read, "KeyboardInterrupt".
Outcome(e, intr) ==
    IF ~e.stdin /\ OpenResult(e.name) # "ok" THEN OpenResult(e.name)
    ELSE IF intr THEN "KeyboardInterrupt"
    ELSE IF e.stdin THEN (IF stdin_closes > 0 THEN "ValueError" ELSE "ok")
    ELSE ReadResult(e.name)

\* The bytes read from entry e before its read ends.
BytesOf(e) ==
    IF e.stdin THEN (IF stdin_eof \/ stdin_closes > 0 THEN <<>> ELSE StdinContent)
    ELSE Content(e.name)

Opened(e) == ~e.stdin /\ OpenResult(e.name) = "ok"

\* streams and stdin_closes after entry e was opened (if it can be) and
\* close() was called on its stream or not.
Closing(e, closed) ==
    /\ streams' = IF Opened(e)
                  THEN Append(streams, [name |-> e.name, closes |-> IF closed THEN 1 ELSE 0])
                  ELSE streams
    /\ stdin_closes' = IF e.stdin /\ closed THEN stdin_closes + 1 ELSE stdin_closes

\* KeyboardInterrupt leaves run(); main writes a newline and returns 130
\* (main.py 26-28, vwc.py 374-376).
Interrupted ==
    /\ phase' = "interrupted"
    /\ err' = Append(err, ErrNewline)
    /\ status' = 130

\* An exception nothing catches: traceback, exit status 1.
Crashed ==
    /\ phase' = "crashed"
    /\ err' = Append(err, ErrTraceback)
    /\ status' = 1

\* str(e) of the exceptions run_wc reports through its last two handlers.
ExcText(x) == IF IsOSError(x) THEN strerror(x) ELSE "I/O operation on closed file"

\* run_wc, lines 302-341: one iteration of "for p in files".
run_wc_file ==
    /\ impl = "run_wc" /\ phase = "running"
    /\ idx <= Len(Entries(impl, files))
    /\ \E intr \in BOOLEAN :
         LET e == Entries(impl, files)[idx]
             x == Outcome(e, intr)
             c == CountWhole(BytesOf(e), opts)
         IN  /\ sigint' = (sigint \/ x = "KeyboardInterrupt")
             /\ CASE x = "ok" ->
                    /\ Closing(e, run_wc_closes(e))
                    /\ results' = Append(results, Row(to_fields(c, opts), e.label))
                    /\ tot' = CountsIadd(tot, c)
                    /\ stdin_eof' = (stdin_eof \/ e.stdin)
                    /\ idx' = idx + 1
                    /\ UNCHANGED <<err, exit_code, phase, status>>
               [] Propagates(x) ->
                    /\ Closing(e, FALSE)
                    /\ Interrupted
                    /\ UNCHANGED <<results, tot, stdin_eof, idx, exit_code>>
               [] x = "EISDIR" /\ variant = "bsd" ->
                    /\ Closing(e, FALSE)
                    /\ results' = Append(results, Row(to_fields(Counts, opts), e.name))
                    /\ tot' = CountsIadd(tot, Counts)
                    /\ exit_code' = 1
                    /\ idx' = idx + 1
                    /\ UNCHANGED <<err, stdin_eof, phase, status>>
               [] OTHER ->
                    /\ Closing(e, FALSE)
                    /\ err' = Append(err, ErrLine(e.name, ExcText(x)))
                    /\ exit_code' = 1
                    /\ idx' = idx + 1
                    /\ UNCHANGED <<results, tot, stdin_eof, phase, status>>
    /\ UNCHANGED <<impl, variant, total, files, opts, out, totals, cur>>
    /\ UNCHANGED <<engine, data, pos, cnt, in_word, curr_width, decoder, nchunks, eof>>
    /\ UNCHANGED <<callVars, liveVars>>

\* run_wc, line 288
show_tot(mode, nfiles) == mode \in {"always", "only"} \/ (mode = "auto" /\ nfiles > 1)

\* run_wc, lines 343-361: the totals, the output, the return code.
run_wc_output ==
    /\ impl = "run_wc" /\ phase = "running"
    /\ idx > Len(Entries(impl, files))
    /\ out' = out \o (IF total = "only" THEN <<Row(to_fields(tot, opts), "")>>
                      ELSE IF show_tot(total, Len(Entries(impl, files)))
                      THEN Append(results, Row(to_fields(tot, opts), "total"))
                      ELSE results)
    /\ status' = IF exit_code = 1 THEN 1 ELSE 0
    /\ phase' = "done"
    /\ UNCHANGED <<impl, variant, total, files, opts, idx, err, results, tot, totals, cur,
                   exit_code, streams, stdin_closes, stdin_eof, sigint>>
    /\ UNCHANGED <<engine, data, pos, cnt, in_word, curr_width, decoder, nchunks, eof>>
    /\ UNCHANGED <<callVars, liveVars>>

\* WC.run, lines 231-245, with the step of the generator get_files
\* (WC.get_files 203-207, BusyBox.get_files 30-40) that feeds it.
WC_run_file ==
    /\ impl = "WC" /\ phase = "running"
    /\ idx <= Len(Entries(impl, files))
    /\ \E intr \in BOOLEAN :
         LET e == Entries(impl, files)[idx]
             x == Outcome(e, intr)
             c == ProcessLinesFrom(Counts, BytesOf(e), 1, opts)
             h == handle_error(variant, x, e.name, opts)
         IN  /\ sigint' = (sigint \/ x = "KeyboardInterrupt")
             /\ CASE x = "ok" ->
                    /\ Closing(e, process_file_closes(e))
                    /\ cur' = c
                    /\ out' = Append(out, Row(get_counts_array(c, opts), e.name))
                    /\ tot' = update_totals(tot, c, opts)
                    /\ stdin_eof' = (stdin_eof \/ e.stdin)
                    /\ idx' = idx + 1
                    /\ UNCHANGED <<err, exit_code, phase, status>>
               [] Propagates(x) ->
                    /\ Closing(e, FALSE)
                    /\ Interrupted
                    /\ UNCHANGED <<cur, out, tot, stdin_eof, idx, exit_code>>
               [] IsException(x) /\ h.raises ->
                    /\ Closing(e, FALSE)
                    /\ Crashed
                    /\ cur' = IF Opened(e) \/ e.stdin THEN c ELSE cur
                    /\ UNCHANGED <<out, tot, stdin_eof, idx, exit_code>>
               [] OTHER ->
                    /\ Closing(e, FALSE)
                    /\ err' = err \o h.errs
                    /\ out' = out \o h.rows
                    /\ cur' = IF h.rows # <<>> THEN Counts
                              ELSE IF Opened(e) THEN c ELSE cur
                    /\ exit_code' = set_status(1)
                    /\ idx' = idx + 1
                    /\ UNCHANGED <<tot, stdin_eof, phase, status>>
    /\ UNCHANGED <<impl, variant, total, files, opts, results, totals>>
    /\ UNCHANGED <<engine, data, pos, cnt, in_word, curr_width, decoder, nchunks, eof>>
    /\ UNCHANGED <<callVars, liveVars>>

\* WC.print_totals, line 159
print_totals_due(fs) == Len(fs) > 1

\* WC.run, lines 247-250: print_totals, return self.exit_code.
WC_print_totals ==
    /\ impl = "WC" /\ phase = "running"
    /\ idx > Len(Entries(impl, files))
    /\ out' = IF print_totals_due(files)
              THEN Append(out, Row(get_counts_array(tot, opts), "total"))
              ELSE out
    /\ status' = exit_code
    /\ phase' = "done"
    /\ UNCHANGED <<impl, variant, total, files, opts, idx, err, results, tot, totals, cur,
                   exit_code, streams, stdin_closes, stdin_eof, sigint>>
    /\ UNCHANGED <<engine, data, pos, cnt, in_word, curr_width, decoder, nchunks, eof>>
    /\ UNCHANGED <<callVars, liveVars>>

\* GNU.run, lines 108-114, with the step of GNU.get_files (79-88).
\* process_file(filename, file_obj, args) returns (filename, counts) and
\* closes the stream of a named file.
GNU_run_file ==
    /\ impl = "GNU" /\ total # "only" /\ phase = "running"
    /\ idx <= Len(Entries(impl, files))
    /\ \E intr \in BOOLEAN :
         LET e == Entries(impl, files)[idx]
             x == Outcome(e, intr)
             c == SpecFileCounts(BytesOf(e), opts)
             h == handle_error(variant, x, e.name, opts)
         IN  /\ sigint' = (sigint \/ x = "KeyboardInterrupt")
             /\ CASE x = "ok" ->
                    /\ Closing(e, ~e.stdin)
                    /\ results' = Append(results, Row(to_fields(c, opts), e.name))
                    /\ stdin_eof' = (stdin_eof \/ e.stdin)
                    /\ idx' = idx + 1
                    /\ UNCHANGED <<err, exit_code, phase, status>>
               [] Propagates(x) ->
                    /\ Closing(e, ~e.stdin)
                    /\ Interrupted
                    /\ UNCHANGED <<results, stdin_eof, idx, exit_code>>
               [] IsException(x) /\ h.raises ->
                    /\ Closing(e, ~e.stdin)
                    /\ Crashed
                    /\ UNCHANGED <<results, stdin_eof, idx, exit_code>>
               [] OTHER ->
                    /\ Closing(e, ~e.stdin)
                    /\ err' = err \o h.errs
                    /\ exit_code' = set_status(1)
                    /\ idx' = idx + 1
                    /\ UNCHANGED <<results, stdin_eof, phase, status>>
    /\ UNCHANGED <<impl, variant, total, files, opts, out, tot, totals, cur>>
    /\ UNCHANGED <<engine, data, pos, cnt, in_word, curr_width, decoder, nchunks, eof>>
    /\ UNCHANGED <<callVars, liveVars>>

\* GNU.run, lines 121-129
should_print_total(mode, nresults) ==
    (IF mode = "auto" THEN nresults > 1 ELSE mode = "always") /\ nresults > 0

\* GNU.run, lines 116-138: the rows, the total, the return code.
\* print_summary(totals) writes the row of the totals, labelled "total".
GNU_run_output ==
    /\ impl = "GNU" /\ total # "only" /\ phase = "running"
    /\ idx > Len(Entries(impl, files))
    /\ out' = out \o results \o
              (IF should_print_total(total, Len(results))
               THEN <<Row(SumRows([i \in 1..Len(results[1].fields) |-> 0], results, 1),
                          "total")>>
               ELSE <<>>)
    /\ status' = exit_code
    /\ phase' = "done"
    /\ UNCHANGED <<impl, variant, total, files, opts, idx, err, results, tot, totals, cur,
                   exit_code, streams, stdin_closes, stdin_eof, sigint>>
    /\ UNCHANGED <<engine, data, pos, cnt, in_word, curr_width, decoder, nchunks, eof>>
    /\ UNCHANGED <<callVars, liveVars>>

\* GNU.run_total_only, lines 155-166: one iteration of "for filename,
\* file_obj in files".  process_line(line, args) returns the counts of the
\* line; the lines read before an error stay in totals.
GNU_run_total_only_file ==
    /\ impl = "GNU" /\ total = "only" /\ phase = "running"
    /\ idx <= Len(Entries(impl, files))
    /\ \E intr \in BOOLEAN :
         LET e == Entries(impl, files)[idx]
             x == Outcome(e, intr)
             t == SumLinesFrom(totals, BytesOf(e), 1, opts)
             h == handle_error(variant, x, e.name, opts)
         IN  /\ sigint' = (sigint \/ x = "KeyboardInterrupt")
             /\ CASE x = "ok" ->
                    /\ Closing(e, run_total_only_closes(e))
                    /\ totals' = t
                    /\ stdin_eof' = (stdin_eof \/ e.stdin)
                    /\ idx' = idx + 1
                    /\ UNCHANGED <<err, exit_code, phase, status>>
               [] Propagates(x) ->
                    /\ Closing(e, FALSE)
                    /\ Interrupted
                    /\ UNCHANGED <<totals, stdin_eof, idx, exit_code>>
               [] IsException(x) /\ h.raises ->
                    /\ Closing(e, FALSE)
                    /\ Crashed
                    /\ totals' = IF Opened(e) THEN t ELSE totals
                    /\ UNCHANGED <<stdin_eof, idx, exit_code>>
               [] OTHER ->
                    /\ Closing(e, FALSE)
                    /\ totals' = IF Opened(e) THEN t ELSE totals
                    /\ err' = err \o h.errs
                    /\ exit_code' = set_status(1)
                    /\ idx' = idx + 1
                    /\ UNCHANGED <<stdin_eof, phase, status>>
    /\ UNCHANGED <<impl, variant, total, files, opts, out, results, tot, cur>>
    /\ UNCHANGED <<engine, data, pos, cnt, in_word, curr_width, decoder, nchunks, eof>>
    /\ UNCHANGED <<callVars, liveVars>>

\* GNU.run_total_only, lines 168-171: print_line(totals, ""), the return code.
GNU_run_total_only_output ==
    /\ impl = "GNU" /\ total = "only" /\ phase = "running"
    /\ idx > Len(Entries(impl, files))
    /\ out' = Append(out, Row(totals, ""))
    /\ status' = exit_code
    /\ phase' = "done"
    /\ UNCHANGED <<impl, variant, total, files, opts, idx, err, results, tot, totals, cur,
                   exit_code, streams, stdin_closes, stdin_eof, sigint>>
    /\ UNCHANGED <<engine, data, pos, cnt, in_word, curr_width, decoder, nchunks, eof>>
    /\ UNCHANGED <<callVars, liveVars>>

RunNext ==
    \/ run_wc_file \/ run_wc_output
    \/ WC_run_file \/ WC_print_totals
    \/ GNU_run_file \/ GNU_run_output
    \/ GNU_run_total_only_file \/ GNU_run_total_only_output

SpecRun == RunStart /\ [][RunNext]_vars

\* ------------------------------------------------------------------------
\* What the runs are measured against, computed from the inputs alone
\* ------------------------------------------------------------------------

\* The merge rule of the data model as a table keyed by field.
MergeRule(a, b) ==
    [f \in Fields |-> IF f = "max_line_length" THEN Max(a[f], b[f]) ELSE a[f] + b[f]]

\* An entry whose open and read both succeed.
EntryOK(e) == e.stdin \/ (OpenResult(e.name) = "ok" /\ ReadResult(e.name) = "ok")

\* An entry that names a directory.
IsDir(e) == ~e.stdin /\ OpenResult(e.name) = "EISDIR"

\* The counter of each orchestrator on the bytes of one stream.
CountBy(i, bytes, o) ==
    CASE i = "run_wc" -> CountWhole(bytes, o)
      [] i = "WC"     -> ProcessLinesFrom(Counts, bytes, 1, o)
      [] OTHER        -> SpecFileCounts(bytes, o)

\* The row builder of each orchestrator.
FieldsBy(i, c, o) == IF i = "WC" THEN get_counts_array(c, o) ELSE to_fields(c, o)

\* The merge of the Counts of the entries of es that are read to their end
\* (standard input delivers its bytes once).
RECURSIVE MergedFrom(_, _, _, _, _, _)
MergedFrom(i, es, k, o, acc, consumed) ==
    IF k > Len(es) THEN acc
    ELSE LET e     == es[k]
             bytes == IF e.stdin THEN (IF consumed THEN <<>> ELSE StdinContent)
                      ELSE Content(e.name)
         IN  IF EntryOK(e)
             THEN MergedFrom(i, es, k + 1, o, MergeRule(acc, CountBy(i, bytes, o)),
                             consumed \/ e.stdin)
             ELSE MergedFrom(i, es, k + 1, o, acc, consumed)

MergedTotal == MergedFrom(impl, Entries(impl, files), 1, opts, Counts, FALSE)

\* The subsequence of s whose elements satisfy Test.
RECURSIVE Filter(_, _, _)
Filter(s, Test(_), i) ==
    IF i > Len(s) THEN <<>>
    ELSE (IF Test(s[i]) THEN <<s[i]>> ELSE <<>>) \o Filter(s, Test, i + 1)

Select(s, Test(_)) == Filter(s, Test, 1)

IsTotalRow(r) == r.label = "total"
IsFileRow(r) == r.label # "total"

NumProcessed == Len(Select(Entries(impl, files), EntryOK))

\* ------------------------------------------------------------------------
\* C1 .. C10
\* ------------------------------------------------------------------------

\* C1 (as claimed; the code violates it): when count_stream has read a
\* stream to its end in any sequence of non-empty chunks, its Counts equal
\* the Counts of the same stream read as one chunk, for every set of
\* enabled fields.
C1_ChunkBoundaryInvariance ==
    (engine = "count_stream" /\ eof) => cnt = CountWhole(data, opts)

\* C2 (as claimed; the code violates it): in both engines, with lines
\* enabled, the line count of a stream read to its end is the number of
\* line-feed bytes in it.
C2_LinesAreLineFeeds ==
    (engine \in {"count_stream", "WC"} /\ eof /\ "lines" \in opts)
        => cnt.lines = Cardinality({i \in 1..Len(data) : data[i] = LF})

\* C3: with words enabled, after every chunk count_stream's word count is
\* the number of maximal runs of non-whitespace bytes in the bytes read so
\* far (so a word straddling any number of chunk boundaries counts once), and
\* the carried in_word flag says whether the last byte read is non-whitespace.
C3_WordsCountedOnce ==
    (engine = "count_stream" /\ "words" \in opts)
        => /\ cnt.words = MaximalRuns(SubSeq(data, 1, pos))
           /\ in_word = (pos > 0 /\ ~IsSpaceByte(data[pos]))

\* C3 witness: the single word "aaa" read in three chunks, counted once.
C3_Witness ==
    /\ engine = "count_stream" /\ eof /\ "words" \in opts
    /\ data = <<97, 97, 97>> /\ nchunks = 3 /\ cnt.words = 1

\* The total row of a finished run, if it wrote one.
TotalRows ==
    IF total = "only" THEN out ELSE Select(out, IsTotalRow)

C5_TotalRowPolicy ==
    (phase = "done" /\ total # "only") =>
        IF total = "always" \/ (total = "auto" /\ NumProcessed > 1)
        THEN /\ Len(Select(out, IsTotalRow)) = 1
             /\ IsTotalRow(out[Len(out)])
        ELSE Len(Select(out, IsTotalRow)) = 0

IsListedFailure(e) == ~EntryOK(e) /\ ~IsDir(e)
IsGoodEntry(e) == EntryOK(e)
NotDirLine(l) == l.name # "dir"
NotDirFileRow(r) == IsFileRow(r) /\ r.label # "dir"

\* C7 (as claimed; the code violates it): no run stops at a failing entry;
\* when it ends, the error stream holds exactly one line per failing entry
\* (not found, permission denied, I/O failure, non-OS exception), in input
\* order, and in per-file mode the output holds the row of every other
\* entry, in input order.  Directories are left to C9.
C7_ErrorsDoNotStopTheRun ==
    /\ phase # "crashed"
    /\ phase = "done" =>
         /\ [k \in 1..Len(Select(err, NotDirLine)) |-> Select(err, NotDirLine)[k].name]
              = [k \in 1..Len(Select(Entries(impl, files), IsListedFailure)) |->
                   Select(Entries(impl, files), IsListedFailure)[k].name]
         /\ total # "only" =>
              [k \in 1..Len(Select(out, NotDirFileRow)) |-> Select(out, NotDirFileRow)[k].label]
                = [k \in 1..Len(Select(Entries(impl, files), IsGoodEntry)) |->
                     Select(Entries(impl, files), IsGoodEntry)[k].label]

\* Whether one of the first n entries fails (at open or while it is read).
FailedBefore(n) == \E k \in 1..n : ~EntryOK(Entries(impl, files)[k])

IsDirLine(l) == l.name = "dir"
IsDirRow(r) == r.label = "dir"
NumDirs == Len(Select(Entries(impl, files), IsDir))
OtherFailure == \E k \in 1..Len(Entries(impl, files)) :
                    /\ ~EntryOK(Entries(impl, files)[k])
                    /\ ~IsDir(Entries(impl, files)[k])

\* C9 (as claimed; the code violates it): in a finished per-file run, under
\* GNU and BusyBox every directory entry gets an error line and no row and
\* the status is non-zero; under BSD it gets no error line and an all-zero
\* row labelled with its name, and the status is what the other entries
\* make it.
C9_DirectoryPolicy ==
    (phase = "done" /\ total # "only" /\ NumDirs > 0) =>
        IF variant \in {"bsd", "BSD"}
        THEN /\ Select(err, IsDirLine) = <<>>
             /\ Select(out, IsDirRow)
                  = [k \in 1..NumDirs |-> Row(FieldsBy(impl, Counts, opts), "dir")]
             /\ status = IF OtherFailure THEN 1 ELSE 0
        ELSE /\ Len(Select(err, IsDirLine)) = NumDirs
             /\ Select(out, IsDirRow) = <<>>
             /\ status # 0

\* C10: close() is never called on standard input, in any orchestrator, on
\* any path; so no read of standard input finds it closed.
C10_StdinNeverClosed == stdin_closes = 0

\* C10 witness: BusyBox given "-" twice: both entries were read and got
\* their row, the second after the first had been through process_file.
C10_Witness ==
    /\ impl = "WC" /\ variant = "BusyBox" /\ files = <<"-", "-">>
    /\ phase = "done" /\ Len(out) = 3 /\ stdin_eof

\* The run has ended, on whichever path.
RunEnded == phase \in {"done", "interrupted", "crashed"}

\* C11: when a run ends (normally, interrupted or by an exception), every
\* stream that was opened for a named file has been closed exactly once.
C11_NamedStreamsClosedOnce ==
    RunEnded => \A k \in 1..Len(streams) : streams[k].closes = 1

\* ------------------------------------------------------------------------
\* Display width: the reference the claims are stated against
\* ------------------------------------------------------------------------

\* The wide ranges with their published inclusive bounds: Hangul Jamo,
\* Hangul Jamo Extended-A, CJK, Hangul Syllables, CJK Compatibility
\* Ideographs, Fullwidth ASCII, Fullwidth symbols.
IsWideRef(c) ==
    \/ (4352 <= c /\ c <= 4447)
    \/ (43360 <= c /\ c <= 43391)
    \/ (11904 <= c /\ c <= 40959)
    \/ (44032 <= c /\ c <= 55203)
    \/ (63744 <= c /\ c <= 64255)
    \/ (65280 <= c /\ c <= 65376)
    \/ (65504 <= c /\ c <= 65510)

IsControlRef(c) == c < 32 \/ (127 <= c /\ c <= 159)

RefCharWidth(c) == IF IsWideRef(c) THEN 2 ELSE IF IsControlRef(c) THEN 0 ELSE 1

\* The width of a line of codepoints under the tab rule
\* next_width = (current_width // 8 + 1) * 8.
RECURSIVE TabRuleWidth(_, _, _)
TabRuleWidth(w, text, i) ==
    IF i > Len(text) THEN w
    ELSE TabRuleWidth(IF text[i] = TAB THEN ((w \div 8) + 1) * 8
                      ELSE w + RefCharWidth(text[i]),
                      text, i + 1)

RECURSIVE MaxOver(_, _, _)
MaxOver(ws, i, m) == IF i > Len(ws) THEN m ELSE MaxOver(ws, i + 1, Max(m, ws[i]))

\* The bytes are well-formed UTF-8.
ValidUTF8(bytes) ==
    LET d == IncrementalDecode(<<>>, bytes) IN d.dropped = 0 /\ d.pend = <<>>

\* The largest tab-rule width over the lines of the input.
RefMaxWidth(bytes) ==
    LET ls == SplitLF(DecodeIgnore(bytes))
    IN  MaxOver([k \in 1..Len(ls) |-> TabRuleWidth(0, ls[k], 1)], 1, 0)

\* Every line of the input ends with a line feed.
AllTerminated(bytes) == bytes = <<>> \/ bytes[Len(bytes)] = LF

\* The stream was read to its end, by count_stream in one chunk or by
\* WC.process_file line by line, with the width enabled.
WidthOfWholeRead ==
    /\ eof /\ "max_line_length" \in opts
    /\ (engine = "WC" \/ (engine = "count_stream" /\ nchunks <= 1))

\* C12: in both width computations a tab advances the display width so far
\* (a wide character counting 2) to the next multiple of 8: for well-formed
\* input whose lines are all terminated, the reported width is the largest
\* tab-rule width of a line; the wide character, tab, "x" line has width 9.
C12_TabAdvancesDisplayWidth ==
    (WidthOfWholeRead /\ ValidUTF8(data) /\ AllTerminated(data))
        => cnt.max_line_length = RefMaxWidth(data)

\* The length in bytes of the longest line-feed separated segment.
LongestLine(bytes) ==
    LET ls == SplitLF(bytes)
    IN  MaxOver([k \in 1..Len(ls) |-> Len(ls[k])], 1, 0)

\* The text holds no tab and no wide character.
NoTabNoWide(bytes) ==
    LET text == DecodeIgnore(bytes)
    IN  \A i \in 1..Len(text) : text[i] # TAB /\ ~IsWideRef(text[i])

\* C13: for text without tab and wide character, the reported width is the
\* length in bytes of the longest line, the last line terminated or not.
C13_WidthOfPlainText ==
    (WidthOfWholeRead /\ ValidUTF8(data) /\ NoTabNoWide(data))
        => cnt.max_line_length = LongestLine(data)

\* ------------------------------------------------------------------------
\* The pure functions, called on their own
\* ------------------------------------------------------------------------

\* What set_column_width sees of one name: standard input ("-" or ""), a
\* name os.stat fails on, a directory, a symbolic link to a regular file
\* (lstat: not S_ISREG; size is the size of its target), a regular file.
Meta(kind, size) == [kind |-> kind, size |-> size]

\* len(str(n)), n >= 0
RECURSIVE NumDigits(_)
NumDigits(n) == IF n < 10 THEN 1 ELSE 1 + NumDigits(n \div 10)

\* The loop of Linux.set_column_width (lines 59-90) from entry i on, with
\* the column width w and total_size t so far.
RECURSIVE ColumnWidthLoop(_, _, _, _)
ColumnWidthLoop(metas, i, w, t) ==
    IF i > Len(metas) THEN w
    ELSE LET m == metas[i]
         IN  CASE m.kind = "stdin" -> 7
               [] m.kind = "error" -> ColumnWidthLoop(metas, i + 1, w, t)
               [] m.kind # "reg"   -> 7
               [] OTHER ->
                    LET w2 == Max(w, NumDigits(t + m.size))
                    IN  IF w2 >= 7 THEN 7
                        ELSE ColumnWidthLoop(metas, i + 1, w2, t + m.size)

\* Linux.set_column_width(filenames): self.column_width afterwards.
set_column_width(only, metas) ==
    IF only THEN 1
    ELSE IF metas = <<>> THEN 7
    ELSE ColumnWidthLoop(metas, 1, 1, 0)

\* Longest list of names given to set_column_width.
MaxNames == 3

\* File sizes: empty, the two sample files, sizes whose sums gain a digit,
\* and the two sizes around the cap (Scenario E: 1,000,000 bytes).
Sizes == {0, 6, 12, 95, 999999, 1000000}

Metas ==
    {Meta("stdin", 0), Meta("error", 0), Meta("dir", 0)}
        \cup {Meta("link", z) : z \in {6, 1000000}}
        \cup {Meta("reg", z) : z \in Sizes}

\* The NUL character of a name list.
NUL == "NUL"

\* text.split("\0"): the pieces between the NULs, always at least one.
RECURSIVE SplitNULFrom(_, _, _, _)
SplitNULFrom(text, i, piece, acc) ==
    IF i > Len(text) THEN Append(acc, piece)
    ELSE IF text[i] = NUL THEN SplitNULFrom(text, i + 1, <<>>, Append(acc, piece))
    ELSE SplitNULFrom(text, i + 1, Append(piece, text[i]), acc)

SplitNUL(text) == SplitNULFrom(text, 1, <<>>, <<>>)

\* read_nul_list(fname) on a list with the content text (vwc.py 107-109):
\* data.decode(errors="ignore").split("\0")[:-1]
read_nul_list(text) ==
    LET pieces == SplitNUL(text) IN SubSeq(pieces, 1, Len(pieces) - 1)

\* GNU.get_files with --files0-from (gnu.py 49-66): the names it tries to
\* open, in order; empty names are skipped.
RECURSIVE SkipEmpty(_, _)
SkipEmpty(names, i) ==
    IF i > Len(names) THEN <<>>
    ELSE (IF names[i] = <<>> THEN <<>> ELSE <<names[i]>>) \o SkipEmpty(names, i + 1)

GNU_files0_from(text) == SkipEmpty(SplitNUL(text), 1)

\* Longest name list, in characters.
MaxList == 4

NameLists == SeqsUpTo({"a", "b", NUL}, MaxList)

\* Values of a count: one digit, two, seven, and one that overflows 7 columns.
CountValues == {0, 12, 1234567, 12345678}

\* Most fields in a row handed to print_line on its own.
MaxFields == 3

CountLists == SeqsUpTo(CountValues, MaxFields) \ {<<>>}

\* No label (standard input), a file name, the label of the total row.
Labels == {<<>>, <<"a">>, <<"t", "o", "t", "a", "l">>}

\* Codepoints at and around the bounds of the ranges char_width tests, and
\* ordinary ones: "a", U+00E9, U+4E2D, the last codepoint.
CodePoints ==
    {0, 31, 32, 97, 126, 127, 128, 159, 160, 233,
     4351, 4352, 4353, 4446, 4447, 4448, 4513, 4514, 4515,
     11903, 11904, 11905, 20013, 40958, 40959, 40960,
     43359, 43360, 43361, 43390, 43391, 43392,
     44031, 44032, 44033, 55202, 55203, 55204,
     63743, 63744, 63745, 64254, 64255, 64256,
     65279, 65280, 65281, 65375, 65376, 65377,
     65503, 65504, 65505, 65509, 65510, 65511, 1114111}

\* Counts handed to the row builders: every field different, the Counts of
\* Scenario B and of Scenario A with every field enabled, and the empty Counts.
CountsSamples ==
    {[lines |-> 1, words |-> 2, chars |-> 3, bytes |-> 4, max_line_length |-> 5],
     CountWhole(ScenarioB, Fields), CountWhole(ScenarioA, Fields), Counts}

CallFns == {"char_width", "set_column_width", "GNU.print_line", "BSD.print_line",
            "read_nul_list", "GNU.get_files", "Counts.to_fields", "WC.get_counts_array"}

ArgsOf(f) ==
    CASE f = "char_width" -> CodePoints
      [] f = "set_column_width" ->
           [only : BOOLEAN, metas : SeqsUpTo(Metas, MaxNames)]
      [] f = "GNU.print_line" ->
           [counts : CountLists, filename : Labels, column_width : {1, 2, 7}]
      [] f = "BSD.print_line" ->
           [counts : CountLists, filename : Labels]
      [] f = "read_nul_list" -> NameLists
      [] f = "GNU.get_files" -> NameLists
      [] f = "Counts.to_fields" -> [c : CountsSamples, o : SUBSET Fields]
      [] f = "WC.get_counts_array" -> [c : CountsSamples, o : SUBSET Fields]

CallStart ==
    /\ StreamIdle
    /\ RunIdle
    /\ LiveIdle
    /\ opts = {}
    /\ fn \in CallFns
    /\ arg \in ArgsOf(fn)
    /\ res = 0
    /\ called = FALSE

\* res = char_width(chr(arg))
Call_char_width ==
    /\ fn = "char_width" /\ ~called
    /\ res' = char_width(arg)
    /\ called' = TRUE
    /\ UNCHANGED <<fn, arg, streamVars, runVars, liveVars>>

\* Linux.get_files, line 25: self.set_column_width(files)
Call_set_column_width ==
    /\ fn = "set_column_width" /\ ~called
    /\ res' = set_column_width(arg.only, arg.metas)
    /\ called' = TRUE
    /\ UNCHANGED <<fn, arg, streamVars, runVars, liveVars>>

\* GNU.print_line(counts, filename) in a run whose column width is
\* arg.column_width; the function does not read it.
Call_GNU_print_line ==
    /\ fn = "GNU.print_line" /\ ~called
    /\ res' = GNU_print_line(arg.counts, arg.filename)
    /\ called' = TRUE
    /\ UNCHANGED <<fn, arg, streamVars, runVars, liveVars>>

Call_BSD_print_line ==
    /\ fn = "BSD.print_line" /\ ~called
    /\ res' = BSD_print_line(arg.counts, arg.filename)
    /\ called' = TRUE
    /\ UNCHANGED <<fn, arg, streamVars, runVars, liveVars>>

\* get_files(args) with --files0-from: read_nul_list(args.files0_from)
Call_read_nul_list ==
    /\ fn = "read_nul_list" /\ ~called
    /\ res' = read_nul_list(arg)
    /\ called' = TRUE
    /\ UNCHANGED <<fn, arg, streamVars, runVars, liveVars>>

\* GNU.get_files(args) with --files0-from
Call_GNU_get_files ==
    /\ fn = "GNU.get_files" /\ ~called
    /\ res' = GNU_files0_from(arg)
    /\ called' = TRUE
    /\ UNCHANGED <<fn, arg, streamVars, runVars, liveVars>>

\* cnt.to_fields(args) (vwc.py 309, 345-349; count.py 25-38)
Call_to_fields ==
    /\ fn = "Counts.to_fields" /\ ~called
    /\ res' = to_fields(arg.c, arg.o)
    /\ called' = TRUE
    /\ UNCHANGED <<fn, arg, streamVars, runVars, liveVars>>

\* self.get_counts_array() (wc.py 160, 165, 175) of an instance whose counts
\* are arg.c and whose flags are arg.o
Call_get_counts_array ==
    /\ fn = "WC.get_counts_array" /\ ~called
    /\ res' = get_counts_array(arg.c, arg.o)
    /\ called' = TRUE
    /\ UNCHANGED <<fn, arg, streamVars, runVars, liveVars>>

CallNext ==
    \/ Call_to_fields
    \/ Call_get_counts_array
    \/ Call_read_nul_list
    \/ Call_GNU_get_files
    \/ Call_char_width
    \/ Call_set_column_width
    \/ Call_GNU_print_line
    \/ Call_BSD_print_line

SpecCalls == CallStart /\ [][CallNext]_vars

\* C14: char_width returns 2 exactly on the wide ranges with their published
\* bounds, 0 exactly on the codepoints below 0x20 and in 0x7F-0x9F, and 1 on
\* every other codepoint.
C14_CharWidthRanges ==
    (fn = "char_width" /\ called) => res = RefCharWidth(arg)

\* An entry that is not a regular file: standard input, a directory (or
\* device). A symbolic link counts as the file it points to.
IsNonRegular(m) == m.kind \in {"stdin", "dir"}

RECURSIVE SumSizes(_, _)
SumSizes(metas, i) ==
    IF i > Len(metas) THEN 0
    ELSE (IF metas[i].kind \in {"reg", "link"} THEN metas[i].size ELSE 0)
         + SumSizes(metas, i + 1)

\* The column width the policy states.
RefColumnWidth(only, metas) ==
    IF only THEN 1
    ELSE IF metas = <<>> \/ \E i \in 1..Len(metas) : IsNonRegular(metas[i]) THEN 7
    ELSE LET d == NumDigits(SumSizes(metas, 1)) IN IF d > 7 THEN 7 ELSE d

\* C15: the column width is 1 in total-only mode, else 7 when standard input
\* or a non-regular entry is among the names (or there is no name), else the
\* number of digits of the sum of the regular files' sizes capped at 7; it
\* lies in 1..7 and names that cannot be stat-ed change nothing.
C15_ColumnWidth ==
    (fn = "set_column_width" /\ called)
        => /\ res = RefColumnWidth(arg.only, arg.metas)
           /\ res \in 1..7

\* The fields right-justified to width w and joined by single spaces.
RECURSIVE JoinFields(_, _, _)
JoinFields(counts, i, w) ==
    IF i > Len(counts) THEN <<>>
    ELSE (IF i > 1 THEN <<" ">> ELSE <<>>) \o FormatD(counts[i], w)
         \o JoinFields(counts, i + 1, w)

\* The label after one space, nothing when there is none.
LabelPart(label) == IF label = <<>> THEN <<>> ELSE <<" ">> \o label

\* C16: a GNU row with one field is the bare numeral, then a space and the
\* label when there is one; a row with several fields is the single-space
\* join of the fields right-justified to the column width of the run, then
\* the label after a space, and nothing when the row has no label.
C16_GNURowFormat ==
    (fn = "GNU.print_line" /\ called)
        => res = IF Len(arg.counts) = 1
                 THEN Str(arg.counts[1]) \o LabelPart(arg.filename)
                 ELSE JoinFields(arg.counts, 1, arg.column_width)
                      \o LabelPart(arg.filename)

\* C17: every BSD row is the single-space join of the fields right-justified
\* to 7, a single field included, then the label after one space, and
\* nothing when the row has no label.
C17_BSDRowFormat ==
    (fn = "BSD.print_line" /\ called)
        => res = JoinFields(arg.counts, 1, 7) \o LabelPart(arg.filename)

\* The preview frames written so far.
Frames == Select(preview, LAMBDA w : w.kind = "frame")

\* (Times are in ticks of 100 ms: 200 ms are 2 ticks.)
\* C18: frames are written only when the error stream is a terminal and only
\* to the error stream, and at least 200 ms lie between the start of the
\* file and its first frame and between two consecutive frames; so nothing
\* is written while less than 200 ms have passed.
C18_PreviewThrottled ==
    /\ (~tty => preview = <<>>)
    /\ \A k \in 1..Len(preview) : preview[k].to_err
    /\ \A k \in 1..Len(Frames) :
          Frames[k].at - (IF k = 1 THEN 0 ELSE Frames[k - 1].at) >= 2
    /\ (now < 2 => Frames = <<>>)

\* C18 witness: a second frame was written, 200 ms after the first.
C18_Witness ==
    /\ tty /\ Len(Frames) = 2
    /\ Frames[2].at - Frames[1].at = 2

\* C19: every frame written is a carriage return followed by the row of the
\* counts reached so far, each field right-justified to the default width 7
\* and joined by single spaces, with no newline at its end, whatever the
\* variant's own padding is.
C19_FrameIsDefaultWidthRow ==
    [][(Len(preview') = Len(preview) + 1 /\ preview'[Len(preview')].kind = "frame")
        => preview'[Len(preview')].text
             = <<"\r">> \o JoinFields(IF engine = "WC"
                                       THEN get_counts_array(cnt', opts)
                                       ELSE to_fields(cnt', opts), 1, 7)]_vars

\* The names of a list: the maximal runs of characters other than NUL, in
\* order; a NUL at the end of the list, or its absence, changes nothing.
RECURSIVE NamesOfList(_, _, _)
NamesOfList(text, i, name) ==
    IF i > Len(text) THEN (IF name = <<>> THEN <<>> ELSE <<name>>)
    ELSE IF text[i] = "NUL"
         THEN (IF name = <<>> THEN <<>> ELSE <<name>>) \o NamesOfList(text, i + 1, <<>>)
         ELSE NamesOfList(text, i + 1, Append(name, text[i]))

\* C20: the entries taken from a name list are its NUL-separated names, in
\* order, none dropped and none added, with or without a NUL at the end:
\* "a\0b" and "a\0b\0" both give a and b.
C20_NulListNames ==
    (fn \in {"read_nul_list", "GNU.get_files"} /\ called)
        => Select(res, LAMBDA n : n # <<>>) = NamesOfList(arg, 1, <<>>)


\* ------------------------------------------------------------------------
\* C22 .. C26
\* ------------------------------------------------------------------------

\* The bytes read so far.
ReadSoFar == SubSeq(data, 1, pos)

\* C22 (as claimed; the code violates it): with chars enabled, the
\* character count is the number of codepoints of the bytes read, decoded
\* with invalid bytes ignored: after every chunk of count_stream it is the
\* number of codepoints completed so far and the decoder holds exactly the
\* unfinished sequence at the end of the bytes read (every chunk went through
\* the carried state once, with max_line_length enabled or not), and at the
\* end of the stream, in both engines, it is the number of codepoints of the
\* whole stream.
C22_CharsAreDecodedCodepoints ==
    /\ (engine = "count_stream" /\ "chars" \in opts)
          => /\ cnt.chars = Len(IncrementalDecode(<<>>, ReadSoFar).out)
             /\ decoder = IncrementalDecode(<<>>, ReadSoFar).pend
    /\ (engine \in {"count_stream", "WC"} /\ eof /\ "chars" \in opts)
          => cnt.chars = Len(DecodeIgnore(data))


\* The display widths of the lines of the bytes, by the per-line rule of
\* count_stream (a tab to the next multiple of 8, else char_width).
LineWidths(bytes) ==
    LET ls == SplitLF(DecodeIgnore(bytes))
    IN  [k \in 1..Len(ls) |-> LineWidth(0, ls[k])]

\* C23 (as claimed; the code violates it): with max_line_length enabled,
\* (a) while count_stream reads, the carried running width is the width of
\* the line still open at the end of the bytes read, through chunks with or
\* without a line feed, and the maximum is that of the lines completed so
\* far; (b) when the stream has ended, the maximum is that of all lines of
\* the input, the last line included when no line feed ends it.
C23_MaxWidthOverAllLines ==
    (engine = "count_stream" /\ "max_line_length" \in opts)
        => LET ws == LineWidths(ReadSoFar)
           IN  /\ ~eof => /\ curr_width = ws[Len(ws)]
                          /\ cnt.max_line_length
                                = MaxOver(SubSeq(ws, 1, Len(ws) - 1), 1, 0)
               /\ eof => cnt.max_line_length = MaxOver(ws, 1, 0)


\* The labels of the rows or entries of s.
LabelsOf(s) == [k \in 1..Len(s) |-> s[k].label]

\* The entries whose iteration of the loop is over.
EntriesDone == SubSeq(Entries(impl, files), 1, idx - 1)

\* C24 (as claimed; the code violates it): while a per-file run goes on,
\* the primary output already holds the row of every entry that was read to
\* its end, in input order: whenever an entry is still to be opened and
\* read, the rows of the entries before it have been written.
C24_RowsEmittedIncrementally ==
    (phase = "running" /\ total # "only" /\ idx <= Len(Entries(impl, files)))
        => LabelsOf(Select(out, NotDirFileRow))
             = LabelsOf(Select(EntriesDone, IsGoodEntry))


\* The fixed order of the fields of a row.
RowOrder == <<"lines", "words", "chars", "bytes", "max_line_length">>

\* The values of the fields of c enabled in o, in the fixed order: the j-th
\* value is that of the enabled field with j - 1 enabled fields before it.
RefRow(c, o) ==
    LET en == {k \in 1..Len(RowOrder) : RowOrder[k] \in o}
    IN  [j \in 1..Cardinality(en) |->
           c[RowOrder[CHOOSE k \in en : Cardinality({m \in en : m < k}) = j - 1]]]

\* C25 (as claimed; the code violates it): both row builders, Counts.to_fields
\* and WC.get_counts_array, list the enabled counts in the fixed order lines,
\* words, chars, bytes, max_line_length, for every set of enabled fields; so
\* they build the same row from the same counts.
C25_FixedFieldOrder ==
    (fn \in {"Counts.to_fields", "WC.get_counts_array"} /\ called)
        => res = RefRow(arg.c, arg.o)


\* C26: in count_stream every count starts as a non-negative integer, and
\* at the end of every chunk step each of lines, words, chars, bytes and
\* max_line_length is a non-negative integer not smaller than it was at the
\* end of the previous chunk step; the decrement for a word that continues
\* across the chunk boundary never lowers the word count.
C26_CountsNeverDecrease ==
    /\ engine = "count_stream" => \A f \in Fields : cnt[f] \in Nat
    /\ [][engine = "count_stream"
            => \A f \in Fields : cnt'[f] \in Nat /\ cnt'[f] >= cnt[f]]_vars

\* C26 witness: "ab cd" read byte by byte with every field enabled: the
\* decrement was taken in the second and in the fifth chunk, and the two
\* words were counted.
C26_Witness ==
    /\ engine = "count_stream" /\ opts = Fields /\ eof
    /\ data = ScenarioWords /\ nchunks = 5
    /\ cnt.words = 2 /\ cnt.bytes = 5

====
